---- MODULE Spec2Model ----
(***************************************************************************)
(* Model of ashby_slug_discovery.py: the batch driver main(), the Google   *)
(* prefix sweep, the enrichment client and the registry files.             *)
(*                                                                         *)
(* Python strings are modelled as sequences of one-character strings, so   *)
(* that lower(), split() and the substring test are computed.  Dates       *)
(* ('%Y-%m-%d' strings, whose lexicographic order is the calendar order)   *)
(* are modelled as day numbers.                                            *)
(***************************************************************************)
EXTENDS Integers, Sequences, FiniteSets, TLC

\* ---------------------------------------------------------------- bounds
\* Size of the letter alphabet used by the prefix generator (26 in the code).
NumLetters == 1
\* Size of the digit alphabet used by the prefix generator (10 in the code).
NumDigits == 1
\* Calendar days the process-local clock can show.
MaxDay == 2
\* Number of times the batch job is started.
MaxRuns == 3
\* Largest number of '<job>' elements in a feed answer.
MaxFeedJobs == 1

\* ------------------------------------------------------- program constants
BASE_URL == <<"j", "o", "b", "s", ".", "a", "s", "h", "b", "y", "h", "q", ".", "c", "o", "m">>
FEW_JOBS_THRESHOLD == 5
\* while start_index <= 100
MaxStartIndex == 100

\* ------------------------------------------------------------ Python strings
AllLetters == <<"a","b","c","d","e","f","g","h","i","j","k","l","m",
                "n","o","p","q","r","s","t","u","v","w","x","y","z">>
AllUpper == <<"A","B","C","D","E","F","G","H","I","J","K","L","M",
              "N","O","P","Q","R","S","T","U","V","W","X","Y","Z">>
AllDigits == <<"0","1","2","3","4","5","6","7","8","9">>

Range(s) == {s[i] : i \in DOMAIN s}

\* str.lower() on one character
LowerChar(c) ==
    IF \E i \in DOMAIN AllUpper : AllUpper[i] = c
    THEN AllLetters[CHOOSE i \in DOMAIN AllUpper : AllUpper[i] = c]
    ELSE c

\* str.lower()
Lower(s) == [i \in DOMAIN s |-> LowerChar(s[i])]

\* str.title() on one character (upper-casing)
UpperChar(c) ==
    IF \E i \in DOMAIN AllLetters : AllLetters[i] = c
    THEN AllUpper[CHOOSE i \in DOMAIN AllLetters : AllLetters[i] = c]
    ELSE c

IsAlpha(c) == c \in Range(AllLetters) \cup Range(AllUpper)

\* index of the first position >= from whose character is in chars, or Len(s)+1
RECURSIVE FindAny(_, _, _)
FindAny(s, chars, from) ==
    IF from > Len(s) THEN Len(s) + 1
    ELSE IF s[from] \in chars THEN from
    ELSE FindAny(s, chars, from + 1)

\* s[a:b] with 1-based inclusive bounds
Slice(s, a, b) == IF a > b THEN <<>> ELSE SubSeq(s, a, b)

\* sub in s
Contains(s, sub) ==
    \E i \in 1..(Len(s) - Len(sub) + 1) : SubSeq(s, i, i + Len(sub) - 1) = sub

\* str.strip(chars)
RECURSIVE LStrip(_, _)
LStrip(s, chars) ==
    IF s # <<>> /\ Head(s) \in chars THEN LStrip(Tail(s), chars) ELSE s

RECURSIVE RStrip(_, _)
RStrip(s, chars) ==
    IF s # <<>> /\ s[Len(s)] \in chars THEN RStrip(SubSeq(s, 1, Len(s) - 1), chars) ELSE s

Strip(s, chars) == RStrip(LStrip(s, chars), chars)

Whitespace == {" ", "\t", "\n", "\r"}

\* s.split(sep)[0] for a one-character separator
SplitFirst(s, sep) == Slice(s, 1, FindAny(s, {sep}, 1) - 1)

\* str(n) for a non-negative integer
RECURSIVE IntToStr(_)
IntToStr(n) ==
    IF n < 10 THEN <<AllDigits[n + 1]>>
    ELSE IntToStr(n \div 10) \o <<AllDigits[(n % 10) + 1]>>

DigitValue(c) == (CHOOSE i \in DOMAIN AllDigits : AllDigits[i] = c) - 1

\* int(s) succeeds (decimal digits only; signs and blanks do not occur in
\* what str(n) produces)
IsIntStr(s) == s # <<>> /\ \A i \in DOMAIN s : s[i] \in Range(AllDigits)

\* int(s)
RECURSIVE StrToInt(_)
StrToInt(s) ==
    IF Len(s) = 1 THEN DigitValue(s[1])
    ELSE 10 * StrToInt(SubSeq(s, 1, Len(s) - 1)) + DigitValue(s[Len(s)])

\* ------------------------------------------------------ extract_slug_from_url
\* None
NoSlug == <<>>

\* urllib.parse.urlparse: scheme, netloc, path (query and fragment are cut off)
SchemeEnd(url) == FindAny(url, {":"}, 1)

HasScheme(url) ==
    /\ SchemeEnd(url) <= Len(url)
    /\ SchemeEnd(url) > 1
    /\ IsAlpha(url[1])
    /\ \A i \in 1..(SchemeEnd(url) - 1) :
          IsAlpha(url[i]) \/ url[i] \in Range(AllDigits) \cup {"+", "-", "."}

AfterScheme(url) ==
    IF HasScheme(url) THEN Slice(url, SchemeEnd(url) + 1, Len(url)) ELSE url

HasNetloc(url) ==
    LET r == AfterScheme(url) IN Len(r) >= 2 /\ r[1] = "/" /\ r[2] = "/"

Netloc(url) ==
    LET r == AfterScheme(url) IN
    IF HasNetloc(url) THEN Slice(r, 3, FindAny(r, {"/", "?", "#"}, 3) - 1) ELSE <<>>

AfterNetloc(url) ==
    LET r == AfterScheme(url) IN
    IF HasNetloc(url) THEN Slice(r, FindAny(r, {"/", "?", "#"}, 3), Len(r)) ELSE r

\* the fragment is split off at the first '#', then the query at the first '?'
Path(url) == SplitFirst(SplitFirst(AfterNetloc(url), "#"), "?")

extract_slug_from_url(url) ==
    IF Contains(Netloc(url), BASE_URL)
    THEN LET first == SplitFirst(Strip(Path(url), {"/"}), "/")
             slug == SplitFirst(SplitFirst(Strip(Lower(first), Whitespace), "?"), "#")
         IN IF first # <<>> THEN slug ELSE NoSlug
    ELSE NoSlug

\* ------------------------------------------------------- prefix generator
Letters == SubSeq(AllLetters, 1, NumLetters)
Digits == SubSeq(AllDigits, 1, NumDigits)

\* for c1 in A: for c2 in B: append(c1 + c2)
Pairs(A, B) ==
    [k \in 1..(Len(A) * Len(B)) |->
        <<A[((k - 1) \div Len(B)) + 1], B[((k - 1) % Len(B)) + 1]>>]

prefixes ==
    <<NoSlug>>
    \o [i \in DOMAIN Letters |-> <<Letters[i]>>]
    \o [i \in DOMAIN Digits |-> <<Digits[i]>>]
    \o Pairs(Letters, Letters)
    \o Pairs(Letters, Digits)
    \o Pairs(Digits, Letters)

\* ------------------------------------------------------------ HTTP answers
\* An answer of requests.get / requests.head: the call raises (transport
\* failure, timeout) or returns a status code and a body.

Answered(resp) == resp.transport

\* validate_slug: HEAD answered 200
validate_slug(resp) == Answered(resp) /\ resp.status = 200

\* ------------------------------------------------------------ brute force
words ==
  <<
     <<"a", "i">>, <<"a", "p", "p">>, <<"t", "e", "c", "h">>, <<"l", "a", "b", "s">>,
     <<"d", "a", "t", "a">>, <<"c", "l", "o", "u", "d">>, <<"s", "o", "f", "t">>, <<"w", "a", "r", "e">>,
     <<"s", "y", "s", "t", "e", "m", "s">>, <<"s", "o", "l", "u", "t", "i", "o", "n", "s">>, <<"g", "r", "o", "u", "p">>, <<"d", "i", "g", "i", "t", "a", "l">>,
     <<"v", "e", "n", "t", "u", "r", "e", "s">>, <<"p", "a", "r", "t", "n", "e", "r", "s">>, <<"c", "a", "p", "i", "t", "a", "l">>, <<"h", "e", "a", "l", "t", "h">>,
     <<"c", "a", "r", "e">>, <<"m", "e", "d", "i", "c", "a", "l">>, <<"b", "i", "o">>, <<"p", "h", "a", "r", "m", "a">>,
     <<"f", "i", "n", "a", "n", "c", "e">>, <<"p", "a", "y">>, <<"b", "a", "n", "k">>, <<"c", "r", "y", "p", "t", "o">>,
     <<"w", "e", "b">>, <<"n", "e", "t">>, <<"m", "e", "d", "i", "a">>, <<"g", "a", "m", "e", "s">>,
     <<"s", "t", "u", "d", "i", "o">>, <<"w", "o", "r", "k", "s">>, <<"l", "a", "b", "s">>, <<"i", "n", "c">>,
     <<"c", "o", "r", "p">>, <<"c", "o", "m", "p", "a", "n", "y">>, <<"c", "o">>, <<"i", "o">>,
     <<"h", "q">>, <<"b", "a", "s", "e">>, <<"h", "u", "b">>, <<"s", "p", "a", "c", "e">>
  >>

\* itertools.combinations(words[:20], 2)
WordPairs == {p \in (1..20) \X (1..20) : p[1] < p[2]}

slugs_to_test ==
    Range(words)
    \cup {words[p[1]] \o words[p[2]] : p \in WordPairs}
    \cup {words[p[1]] \o <<"-">> \o words[p[2]] : p \in WordPairs}

\* ------------------------------------------------------- enrichment client
\* check_job_postings_via_api: (job_count, status); job_count None is
\* modelled by isNone.  body.jobs is the number of '<job>' in the feed text.
check_job_postings_via_api(feed) ==
    IF ~Answered(feed) THEN [isNone |-> TRUE, job_count |-> 0, status |-> "API Error"]
    ELSE IF feed.status = 200
         THEN [isNone |-> FALSE, job_count |-> feed.jobs, status |-> "API Success"]
         ELSE [isNone |-> TRUE, job_count |-> 0, status |-> "API returned status"]

Max(a, b) == IF a >= b THEN a ELSE b

RECURSIVE MaxOf(_)
MaxOf(s) == IF s = <<>> THEN 0 ELSE Max(Head(s), MaxOf(Tail(s)))

\* check_job_postings_via_page.  page.indicator: the text holds one of the
\* "no openings" phrases; page.patterns: the number of matches of each of
\* the four markup patterns; page.jsonld: the number of JobPosting records
\* in the ld+json blocks.
check_job_postings_via_page(page) ==
    IF ~Answered(page) THEN [isNone |-> FALSE, job_count |-> 0, status |-> "Page Error"]
    ELSE IF page.status # 200
         THEN [isNone |-> FALSE, job_count |-> 0, status |-> "Page returned status"]
    ELSE IF page.indicator
         THEN [isNone |-> FALSE, job_count |-> 0, status |-> "Page shows no openings message"]
    ELSE [isNone |-> FALSE, job_count |-> MaxOf(page.patterns) + page.jsonld,
          status |-> "Page scraping"]

\* variant: "if job_count:" in place of "if job_count is not None:"
get_job_count_Truthy(feed, page) ==
    LET api == check_job_postings_via_api(feed) IN
    IF ~api.isNone /\ api.job_count # 0 THEN api ELSE check_job_postings_via_page(page)

get_job_count(feed, page) ==
    LET api == check_job_postings_via_api(feed) IN
    IF ~api.isNone THEN api ELSE check_job_postings_via_page(page)

\* s.split(sep)[0] for a separator of several characters
RECURSIVE SplitFirstSeq(_, _)
SplitFirstSeq(s, sep) ==
    IF Len(s) < Len(sep) THEN s
    ELSE IF SubSeq(s, 1, Len(sep)) = sep THEN <<>>
    ELSE <<Head(s)>> \o SplitFirstSeq(Tail(s), sep)

\* slug.replace('-', ' ').title()
TitleCase(s) ==
    [i \in DOMAIN s |->
        IF i = 1 \/ ~IsAlpha(s[i - 1]) THEN UpperChar(s[i]) ELSE LowerChar(s[i])]

SlugTitle(slug) ==
    TitleCase([i \in DOMAIN slug |-> IF slug[i] = "-" THEN " " ELSE slug[i]])

\* get_company_name_from_slug.  page.hasTitle / page.title: the text between
\* <title> and </title>; page.meta: the content of the first matching meta
\* tag, empty when none matches.
get_company_name_from_slug(slug, page) ==
    IF ~Answered(page) \/ page.status # 200 THEN SlugTitle(slug)
    ELSE LET company_name ==
                 Strip(SplitFirstSeq(SplitFirstSeq(page.title, <<" ", "-", " ">>),
                                     <<" ", "|", " ">>), Whitespace)
         IN IF page.hasTitle /\ company_name # <<>>
               /\ Lower(company_name) # <<"j", "o", "b", "s">>
            THEN company_name
            ELSE IF page.meta # <<>> THEN Strip(page.meta, Whitespace)
            ELSE SlugTitle(slug)

\* --------------------------------------------------------- search client
\* Result links the simulated search API can return.
Link1 == <<"h","t","t","p","s",":","/","/">> \o BASE_URL \o <<"/","a","0">>
Link2 == <<"h","t","t","p","s",":","/","/">> \o BASE_URL
             \o <<"/","A","0","/","j","o","b","s","?","u","=","x","#","t">>
Link3 == <<"h","t","t","p","s",":","/","/","e","x",".","c","o","/","c">>
\* item.get('link', '') of an item without a link
NoLink == <<>>

\* startIndex values a next-page cursor can carry
CursorValues == {1, 11, 101}

EmptyBody ==
    [hasItems |-> FALSE, items |-> <<>>, hasQueries |-> FALSE, hasNextPage |-> FALSE,
     nextPage |-> <<>>]

\* response.json() of a success answer: the shapes lines 240-258 tell apart
JsonBodies ==
    {EmptyBody,
     [hasItems |-> TRUE, items |-> <<Link1>>, hasQueries |-> FALSE,
      hasNextPage |-> FALSE, nextPage |-> <<>>],
     [hasItems |-> TRUE, items |-> <<Link3, Link2, NoLink>>, hasQueries |-> TRUE,
      hasNextPage |-> FALSE, nextPage |-> <<>>],
     [hasItems |-> TRUE, items |-> <<Link1>>, hasQueries |-> TRUE,
      hasNextPage |-> TRUE, nextPage |-> <<>>],
     [hasItems |-> TRUE, items |-> <<>>, hasQueries |-> TRUE, hasNextPage |-> TRUE,
      nextPage |-> <<[hasStartIndex |-> FALSE, startIndex |-> 0]>>]}
    \cup {[hasItems |-> TRUE, items |-> it, hasQueries |-> TRUE, hasNextPage |-> TRUE,
           nextPage |-> <<[hasStartIndex |-> TRUE, startIndex |-> n]>>] :
             it \in {<<>>, <<Link2>>}, n \in CursorValues}

SearchAnswers ==
    {[transport |-> FALSE, status |-> 0, json |-> EmptyBody],
     [transport |-> TRUE, status |-> 429, json |-> EmptyBody]}
    \cup {[transport |-> TRUE, status |-> 200, json |-> j] : j \in JsonBodies}

\* google_custom_search: None (isNone) on a RequestException, which
\* raise_for_status raises for a 4xx/5xx status; else the parsed body
google_custom_search(resp) ==
    IF ~Answered(resp) \/ resp.status >= 400
    THEN [isNone |-> TRUE, json |-> EmptyBody]
    ELSE [isNone |-> FALSE, json |-> resp.json]

\* slugs added to all_slugs by the items of one page
PageSlugs(items) ==
    {extract_slug_from_url(items[k]) : k \in DOMAIN items} \ {NoSlug}

\* how one pass of the while loop ends
\*   "break"  : not result or 'items' not in result, or no next page
\*   "raise"  : result['queries']['nextPage'][0]['startIndex'] raises
\*   "next"   : start_index is set from the cursor
PageOutcome(result) ==
    IF result.isNone \/ ~result.json.hasItems THEN "break"
    ELSE IF ~result.json.hasQueries \/ ~result.json.hasNextPage THEN "break"
    ELSE IF result.json.nextPage = <<>> THEN "raise"
    ELSE IF ~result.json.nextPage[1].hasStartIndex THEN "raise"
    ELSE "next"

\* -------------------------------------------------------------- registry
\* The dict existing_slugs is a sequence of entries in insertion order.
Keys(d) == {d[k].slug : k \in DOMAIN d}

\* d[slug] = entry
DictSet(d, entry) ==
    IF entry.slug \in Keys(d)
    THEN [k \in DOMAIN d |-> IF d[k].slug = entry.slug THEN entry ELSE d[k]]
    ELSE Append(d, entry)

RECURSIVE LoadRows(_, _)
LoadRows(rows, d) ==
    IF rows = <<>> THEN d ELSE LoadRows(Tail(rows), DictSet(d, Head(rows)))

\* A file is [header, rows]; a missing file and an empty file both have no
\* header and no rows (csv.DictReader yields nothing for either).
NoFile == [header |-> FALSE, rows |-> <<>>]

\* variant: the first data row is consumed with the header
get_existing_slugs_SkipFirst(file) ==
    IF file.header /\ file.rows # <<>> THEN LoadRows(Tail(file.rows), <<>>) ELSE <<>>

get_existing_slugs(file) == IF file.header THEN LoadRows(file.rows, <<>>) ELSE <<>>

\* variant: new_slugs = all_discovered
NewSlugs_NoDiff(discovered, existing) == discovered

\* new_slugs = all_discovered - set(existing_slugs.keys())
NewSlugs(discovered, existing) == discovered \ Keys(existing)

\* variant: last_checked_date left empty ('' sorts before every date)
NewEntry_NoLastChecked(slug, company_name, today, job_count) ==
    [slug |-> slug, company_name |-> company_name, first_seen_date |-> today,
     last_checked_date |-> 0, job_count |-> IntToStr(job_count)]

\* existing_slugs[slug] = {...} for a new slug
NewEntry(slug, company_name, today, job_count) ==
    [slug |-> slug, company_name |-> company_name, first_seen_date |-> today,
     last_checked_date |-> today, job_count |-> IntToStr(job_count)]

\* variant: the test is inverted, only the new slugs are stamped
MergeDates_Inverted(existing, new, today) ==
    [k \in DOMAIN existing |->
        IF existing[k].slug \in new
        THEN [existing[k] EXCEPT !.last_checked_date = today]
        ELSE existing[k]]

\* variant: the update also stamps first_seen_date
MergeDates_FirstSeen(existing, new, today) ==
    [k \in DOMAIN existing |->
        IF existing[k].slug \notin new
        THEN [existing[k] EXCEPT !.last_checked_date = today, !.first_seen_date = today]
        ELSE existing[k]]

\* for slug in existing_slugs: if slug not in new_slugs: last_checked_date = today
MergeDates(existing, new, today) ==
    [k \in DOMAIN existing |->
        IF existing[k].slug \notin new
        THEN [existing[k] EXCEPT !.last_checked_date = today]
        ELSE existing[k]]

\* sorted(items, key=first_seen_date, reverse=True): a stable sort, equal
\* keys keep their order
RECURSIVE InsertDesc(_, _)
InsertDesc(sorted, e) ==
    IF sorted = <<>> THEN <<e>>
    ELSE IF Head(sorted).first_seen_date >= e.first_seen_date
         THEN <<Head(sorted)>> \o InsertDesc(Tail(sorted), e)
         ELSE <<e>> \o sorted

RECURSIVE SortDesc(_)
SortDesc(d) ==
    IF d = <<>> THEN <<>>
    ELSE InsertDesc(SortDesc(SubSeq(d, 1, Len(d) - 1)), d[Len(d)])

\* variant: the last row is not written
sorted_slugs_DropLast(slugs_dict) ==
    IF slugs_dict = <<>> THEN <<>>
    ELSE SubSeq(SortDesc(slugs_dict), 1, Len(slugs_dict) - 1)

\* the rows save_to_csv writes
sorted_slugs(slugs_dict) == SortDesc(slugs_dict)

\* save_filtered_lists: int(job_count) raising is swallowed, the entry skipped
IsZeroJobs(e) == IsIntStr(e.job_count) /\ StrToInt(e.job_count) = 0

IsFewJobs(e) ==
    /\ IsIntStr(e.job_count)
    /\ StrToInt(e.job_count) # 0
    /\ StrToInt(e.job_count) < FEW_JOBS_THRESHOLD

zero_jobs(slugs_dict) == SelectSeq(slugs_dict, IsZeroJobs)

few_jobs(slugs_dict) == SelectSeq(slugs_dict, IsFewJobs)

\* a row of a filtered file
FilteredRow(e) ==
    [slug |-> e.slug, company_name |-> e.company_name,
     first_seen_date |-> e.first_seen_date, job_count |-> e.job_count,
     url |-> <<"h","t","t","p","s",":","/","/">> \o BASE_URL \o <<"/">> \o e.slug]

FilteredFile(entries) ==
    [header |-> TRUE, rows |-> [k \in DOMAIN SortDesc(entries) |-> FilteredRow(SortDesc(entries)[k])]]

\* ----------------------------------------------------- enrichment answers
\* Answers of the landing page to get_company_name_from_slug
NamePages ==
    {[transport |-> FALSE, status |-> 0, hasTitle |-> FALSE, title |-> <<>>, meta |-> <<>>],
     [transport |-> TRUE, status |-> 404, hasTitle |-> FALSE, title |-> <<>>, meta |-> <<>>],
     [transport |-> TRUE, status |-> 200, hasTitle |-> TRUE,
      title |-> <<"J","o","b","s">>, meta |-> <<>>],
     [transport |-> TRUE, status |-> 200, hasTitle |-> TRUE,
      title |-> <<"A","c"," ","-"," ","J","o","b","s">>, meta |-> <<"X">>]}

\* Answers of the feed endpoint
FeedAnswers ==
    {[transport |-> FALSE, status |-> 0, jobs |-> 0],
     [transport |-> TRUE, status |-> 404, jobs |-> 0]}
    \cup {[transport |-> TRUE, status |-> 200, jobs |-> n] : n \in 0..MaxFeedJobs}

\* Answers of the landing page to check_job_postings_via_page
JobPages ==
    {[transport |-> FALSE, status |-> 0, indicator |-> FALSE,
      patterns |-> <<0, 0, 0, 0>>, jsonld |-> 0],
     [transport |-> TRUE, status |-> 200, indicator |-> TRUE,
      patterns |-> <<2, 0, 0, 0>>, jsonld |-> 0],
     [transport |-> TRUE, status |-> 200, indicator |-> FALSE,
      patterns |-> <<1, 4, 0, 0>>, jsonld |-> 1]}

\* Slugs whose landing page can answer 200 to validate_slug
LiveSlugs == {<<"a", "i">>}

HeadAnswers ==
    {[transport |-> FALSE, status |-> 0], [transport |-> TRUE, status |-> 404],
     [transport |-> TRUE, status |-> 200]}

\* ------------------------------------------------------------------ state
VARIABLES
    csvFile,         \* ashby_companies.csv
    zeroFile,        \* ashby_zero_jobs.csv
    fewFile,         \* ashby_few_jobs.csv
    pc,              \* position of the process in main()
    raised,          \* the uncaught exception that ended the process, if any
    existing_slugs,  \* main: existing_slugs
    all_slugs,       \* discover_via_google_exhaustive: all_slugs
    prefixIdx,       \* discover_via_google_exhaustive: position in prefixes
    start_index,     \* discover_via_google_exhaustive: start_index
    all_discovered,  \* main: all_discovered
    new_slugs,       \* main: new_slugs
    todo,            \* main: slugs of new_slugs not yet processed
    today,           \* main: today (0 before it is read)
    pending,         \* save_to_csv: rows not yet written
    startFile,       \* history: csvFile when the run started
    loaded,          \* history: existing_slugs as loaded
    enriched,        \* history: slugs the run passed to the enrichment client
    clockBack,       \* history: a run read a date before a loaded first_seen_date
    probe,           \* get_job_count: the answers it saw and what it returned
    runs,            \* number of processes started so far
    gen,             \* prefix generator: the lists and loop positions of lines 198-223
    urlProbe         \* extract_slug_from_url: the URL it was given and what it returned

vars == <<csvFile, zeroFile, fewFile, pc, raised, existing_slugs, all_slugs, prefixIdx,
          start_index, all_discovered, new_slugs, todo, today, pending, startFile,
          loaded, enriched, clockBack, probe, runs, gen, urlProbe>>

probes == <<probe, gen, urlProbe>>

files == <<csvFile, zeroFile, fewFile>>

locals == <<existing_slugs, all_slugs, prefixIdx, start_index, all_discovered,
            new_slugs, todo, today, pending, loaded, enriched>>

\* the prefix generator before line 198
GenStart == [phase |-> "start", prefixes |-> <<>>, two_letter |-> <<>>, c1 |-> 1, c2 |-> 1]

NoUrlProbe ==
    [acted |-> FALSE, scheme |-> <<>>, host |-> <<>>, segment |-> <<>>, rest |-> <<>>,
     suffix |-> <<>>, result |-> <<>>]

NoProbe ==
    [acted |-> FALSE, feed |-> [transport |-> FALSE, status |-> 0, jobs |-> 0],
     page |-> [transport |-> FALSE, status |-> 0, indicator |-> FALSE,
               patterns |-> <<0, 0, 0, 0>>, jsonld |-> 0],
     result |-> [isNone |-> TRUE, job_count |-> 0, status |-> ""]]

\* the values of the process's variables before main() has run
FreshLocals ==
    /\ existing_slugs = <<>>
    /\ all_slugs = {}
    /\ prefixIdx = 1
    /\ start_index = 1
    /\ all_discovered = {}
    /\ new_slugs = {}
    /\ todo = {}
    /\ today = 0
    /\ pending = <<>>
    /\ loaded = <<>>
    /\ enriched = {}

Init ==
    /\ csvFile = NoFile
    /\ zeroFile = NoFile
    /\ fewFile = NoFile
    /\ pc = "idle"
    /\ raised = "none"
    /\ FreshLocals
    /\ startFile = NoFile
    /\ clockBack = FALSE
    /\ probe = NoProbe
    /\ runs = 0
    /\ gen = GenStart
    /\ urlProbe = NoUrlProbe

Running ==
    {"google", "brute", "diff", "enrich", "merge", "save_open", "save_header",
     "save_rows", "save_zero", "save_few"}

\* main line 402: a new process starts and loads the registry
LoadRegistry ==
    /\ pc \in {"idle", "done", "killed", "crashed"}
    /\ runs < MaxRuns
    /\ pc' = "google"
    /\ raised' = "none"
    /\ existing_slugs' = get_existing_slugs(csvFile)
    /\ loaded' = get_existing_slugs(csvFile)
    /\ startFile' = csvFile
    /\ all_slugs' = {}
    /\ prefixIdx' = 1
    /\ start_index' = 1
    /\ all_discovered' = {}
    /\ new_slugs' = {}
    /\ todo' = {}
    /\ today' = 0
    /\ pending' = <<>>
    /\ enriched' = {}
    /\ runs' = runs + 1
    /\ UNCHANGED <<files, clockBack, probes>>

\* lines 237-259: one pass of the while loop, one call of the search API
SearchPage ==
    /\ pc = "google"
    /\ prefixIdx <= Len(prefixes)
    /\ start_index <= MaxStartIndex
    /\ \E resp \in SearchAnswers :
          LET result == google_custom_search(resp)
              outcome == PageOutcome(result)
          IN /\ all_slugs' = IF result.isNone \/ ~result.json.hasItems
                             THEN all_slugs
                             ELSE all_slugs \cup PageSlugs(result.json.items)
             /\ IF outcome = "break"
                THEN /\ prefixIdx' = prefixIdx + 1
                     /\ start_index' = 1
                     /\ UNCHANGED <<pc, raised>>
                ELSE IF outcome = "raise"
                THEN /\ pc' = "crashed"
                     /\ raised' = IF result.json.nextPage = <<>>
                                  THEN "IndexError" ELSE "KeyError"
                     /\ UNCHANGED <<prefixIdx, start_index>>
                ELSE /\ start_index' = result.json.nextPage[1].startIndex
                     /\ UNCHANGED <<pc, raised, prefixIdx>>
    /\ UNCHANGED <<files, existing_slugs, all_discovered, new_slugs, todo, today,
                   pending, startFile, loaded, enriched, clockBack, probes, runs>>

\* line 237: the while condition is false, the for loop takes the next prefix
LoopExit ==
    /\ pc = "google"
    /\ prefixIdx <= Len(prefixes)
    /\ start_index > MaxStartIndex
    /\ prefixIdx' = prefixIdx + 1
    /\ start_index' = 1
    /\ UNCHANGED <<files, pc, raised, existing_slugs, all_slugs, all_discovered,
                   new_slugs, todo, today, pending, startFile, loaded, enriched,
                   clockBack, probes, runs>>

\* lines 261-262 and 409: the sweep returns all_slugs
GoogleReturn ==
    /\ pc = "google"
    /\ prefixIdx > Len(prefixes)
    /\ all_discovered' = all_discovered \cup all_slugs
    /\ pc' = "brute"
    /\ UNCHANGED <<files, raised, existing_slugs, all_slugs, prefixIdx, start_index,
                   new_slugs, todo, today, pending, startFile, loaded, enriched,
                   clockBack, probes, runs>>

\* lines 412-415: discover_via_brute_force and discover_via_specific_searches
BruteForce ==
    /\ pc = "brute"
    /\ \E answers \in [slugs_to_test \cap LiveSlugs -> HeadAnswers] :
          all_discovered' = all_discovered
              \cup {s \in slugs_to_test \cap LiveSlugs : validate_slug(answers[s])}
    /\ pc' = "diff"
    /\ UNCHANGED <<files, raised, existing_slugs, all_slugs, prefixIdx, start_index,
                   new_slugs, todo, today, pending, startFile, loaded, enriched,
                   clockBack, probes, runs>>

\* lines 423-433: new_slugs and today
Diff ==
    /\ pc = "diff"
    /\ new_slugs' = NewSlugs(all_discovered, existing_slugs)
    /\ todo' = NewSlugs(all_discovered, existing_slugs)
    /\ \E d \in 1..MaxDay :
          /\ today' = d
          /\ clockBack' = (clockBack
                \/ \E k \in DOMAIN existing_slugs : d < existing_slugs[k].first_seen_date)
    /\ pc' = "enrich"
    /\ UNCHANGED <<files, raised, existing_slugs, all_slugs, prefixIdx, start_index,
                   all_discovered, pending, startFile, loaded, enriched, probes, runs>>

\* lines 441-457: one pass of the loop over new_slugs (a set: any order)
EnrichOne ==
    /\ pc = "enrich"
    /\ \E slug \in todo, namePage \in NamePages, feed \in FeedAnswers, page \in JobPages :
          LET company_name == get_company_name_from_slug(slug, namePage)
              job == get_job_count(feed, page)
          IN /\ existing_slugs' =
                    DictSet(existing_slugs, NewEntry(slug, company_name, today, job.job_count))
             /\ todo' = todo \ {slug}
             /\ enriched' = enriched \cup {slug}
    /\ UNCHANGED <<files, pc, raised, all_slugs, prefixIdx, start_index, all_discovered,
                   new_slugs, today, pending, startFile, loaded, clockBack, probes, runs>>

\* lines 460-462: update last_checked_date
Merge ==
    /\ pc = "enrich"
    /\ todo = {}
    /\ existing_slugs' = MergeDates(existing_slugs, new_slugs, today)
    /\ pc' = "save_open"
    /\ UNCHANGED <<files, raised, all_slugs, prefixIdx, start_index, all_discovered,
                   new_slugs, todo, today, pending, startFile, loaded, enriched,
                   clockBack, probes, runs>>

\* save_to_csv line 325: open(CSV_FILE, 'w') truncates the file
SaveOpen ==
    /\ pc = "save_open"
    /\ csvFile' = NoFile
    /\ pending' = sorted_slugs(existing_slugs)
    /\ pc' = "save_header"
    /\ UNCHANGED <<zeroFile, fewFile, raised, existing_slugs, all_slugs, prefixIdx,
                   start_index, all_discovered, new_slugs, todo, today, startFile,
                   loaded, enriched, clockBack, probes, runs>>

\* save_to_csv line 328: the header reaches the file
SaveHeader ==
    /\ pc = "save_header"
    /\ csvFile' = [csvFile EXCEPT !.header = TRUE]
    /\ pc' = "save_rows"
    /\ UNCHANGED <<zeroFile, fewFile, raised, existing_slugs, all_slugs, prefixIdx,
                   start_index, all_discovered, new_slugs, todo, today, pending,
                   startFile, loaded, enriched, clockBack, probes, runs>>

\* save_to_csv lines 332-339: one row reaches the file (the buffered writer
\* may flush at any point; whole rows are the granularity kept here)
SaveRow ==
    /\ pc = "save_rows"
    /\ pending # <<>>
    /\ csvFile' = [csvFile EXCEPT !.rows = Append(csvFile.rows, Head(pending))]
    /\ pending' = Tail(pending)
    /\ UNCHANGED <<zeroFile, fewFile, pc, raised, existing_slugs, all_slugs, prefixIdx,
                   start_index, all_discovered, new_slugs, todo, today, startFile,
                   loaded, enriched, clockBack, probes, runs>>

\* save_to_csv returns (the file is closed)
SaveClose ==
    /\ pc = "save_rows"
    /\ pending = <<>>
    /\ pc' = "save_zero"
    /\ UNCHANGED <<files, raised, locals, startFile, clockBack, probes, runs>>

\* save_filtered_lists lines 358-375: the zero-jobs file, written if zero_jobs
\* (open, header and rows in one step)
SaveZero ==
    /\ pc = "save_zero"
    /\ zeroFile' = IF zero_jobs(existing_slugs) # <<>>
                   THEN FilteredFile(zero_jobs(existing_slugs))
                   ELSE zeroFile
    /\ pc' = "save_few"
    /\ UNCHANGED <<csvFile, fewFile, raised, locals, startFile, clockBack, probes, runs>>

\* save_filtered_lists lines 377-394: the few-jobs file, written if few_jobs
\* (open, header and rows in one step)
SaveFew ==
    /\ pc = "save_few"
    /\ fewFile' = IF few_jobs(existing_slugs) # <<>>
                  THEN FilteredFile(few_jobs(existing_slugs))
                  ELSE fewFile
    /\ pc' = "done"
    /\ UNCHANGED <<csvFile, zeroFile, raised, locals, startFile, clockBack, probes, runs>>

\* the process is stopped from outside (signal, power loss): its memory is
\* gone, the files stay as they are
Interrupt ==
    /\ pc \in Running
    /\ pc' = "killed"
    /\ existing_slugs' = <<>>
    /\ all_slugs' = {}
    /\ prefixIdx' = 1
    /\ start_index' = 1
    /\ all_discovered' = {}
    /\ new_slugs' = {}
    /\ todo' = {}
    /\ today' = 0
    /\ pending' = <<>>
    /\ loaded' = <<>>
    /\ enriched' = {}
    /\ startFile' = csvFile
    /\ UNCHANGED <<files, raised, clockBack, probes, runs>>

Next ==
    \/ LoadRegistry
    \/ SearchPage
    \/ LoopExit
    \/ GoogleReturn
    \/ BruteForce
    \/ Diff
    \/ EnrichOne
    \/ Merge
    \/ SaveOpen
    \/ SaveHeader
    \/ SaveRow
    \/ SaveClose
    \/ SaveZero
    \/ SaveFew
    \/ Interrupt

Spec == Init /\ [][Next]_vars

\* The single thread of main() keeps running until it returns or raises:
\* every step of the process that stays possible is eventually taken.
ProcessStep ==
    \/ SearchPage
    \/ LoopExit
    \/ GoogleReturn
    \/ BruteForce
    \/ Diff
    \/ EnrichOne
    \/ Merge
    \/ SaveOpen
    \/ SaveHeader
    \/ SaveRow
    \/ SaveClose
    \/ SaveZero
    \/ SaveFew

FairSpec == Init /\ [][Next]_vars /\ WF_vars(ProcessStep)

\* ------------------------------------------------- get_job_count on its own
\* Largest job count in the answers tried on get_job_count.
MaxProbeJobs == 3

ProbeFeeds ==
    {[transport |-> FALSE, status |-> 0, jobs |-> 0]}
    \cup {[transport |-> TRUE, status |-> s, jobs |-> 0] : s \in {403, 404, 500}}
    \cup {[transport |-> TRUE, status |-> 200, jobs |-> n] : n \in 0..MaxProbeJobs}

ProbePages ==
    {[transport |-> FALSE, status |-> 0, indicator |-> FALSE,
      patterns |-> <<0, 0, 0, 0>>, jsonld |-> 0]}
    \cup {[transport |-> TRUE, status |-> s, indicator |-> FALSE,
           patterns |-> <<0, 0, 0, 0>>, jsonld |-> 0] : s \in {404, 500}}
    \cup {[transport |-> TRUE, status |-> 200, indicator |-> i, patterns |-> p, jsonld |-> j] :
            i \in BOOLEAN, p \in {<<0, 0, 0, 0>>, <<1, 4, 0, 0>>, <<2, 0, MaxProbeJobs, 1>>},
            j \in 0..2}

InitJobCount ==
    /\ csvFile = NoFile
    /\ zeroFile = NoFile
    /\ fewFile = NoFile
    /\ pc = "idle"
    /\ raised = "none"
    /\ FreshLocals
    /\ startFile = NoFile
    /\ clockBack = FALSE
    /\ runs = 0
    /\ gen = GenStart
    /\ urlProbe = NoUrlProbe
    /\ \E feed \in ProbeFeeds, page \in ProbePages :
          probe = [NoProbe EXCEPT !.feed = feed, !.page = page]

\* get_job_count(slug) against the answers drawn
CallGetJobCount ==
    /\ ~probe.acted
    /\ probe' = [probe EXCEPT !.acted = TRUE, !.result = get_job_count(probe.feed, probe.page)]
    /\ UNCHANGED <<files, pc, raised, locals, startFile, clockBack, runs, gen, urlProbe>>

SpecJobCount == InitJobCount /\ [][CallGetJobCount]_vars

\* ------------------------------------------- the prefix generator on its own
\* The generator of lines 198-223 with the alphabets the code uses: the 26
\* letters of 'abcdefghijklmnopqrstuvwxyz' and the 10 digits of '0123456789'.

\* variant: range(ord('a'), ord('z')) stops before 'z'
SingleLetters_NoZ == [i \in 1..(Len(AllLetters) - 1) |-> <<AllLetters[i]>>]

\* [chr(i) for i in range(ord('a'), ord('z')+1)]
SingleLetters == [i \in DOMAIN AllLetters |-> <<AllLetters[i]>>]

\* [str(i) for i in range(10)]
SingleDigits == [i \in 1..10 |-> IntToStr(i - 1)]

\* the nested for loops over A and B move to their next pass, or end
LoopNext(A, B, nextPhase) ==
    IF gen.c2 < Len(B) THEN [gen EXCEPT !.c2 = gen.c2 + 1]
    ELSE IF gen.c1 < Len(A) THEN [gen EXCEPT !.c1 = gen.c1 + 1, !.c2 = 1]
    ELSE [gen EXCEPT !.phase = nextPhase, !.c1 = 1, !.c2 = 1]

GenUnchanged ==
    UNCHANGED <<files, pc, raised, locals, startFile, clockBack, runs, probe, urlProbe>>

\* line 198: prefixes = ['']
GenEmpty ==
    /\ gen.phase = "start"
    /\ gen' = [gen EXCEPT !.phase = "letters", !.prefixes = <<NoSlug>>]
    /\ GenUnchanged

\* line 201: the single letters
GenLetters ==
    /\ gen.phase = "letters"
    /\ gen' = [gen EXCEPT !.phase = "digits", !.prefixes = gen.prefixes \o SingleLetters]
    /\ GenUnchanged

\* line 204: the single digits
GenDigits ==
    /\ gen.phase = "digits"
    /\ gen' = [gen EXCEPT !.phase = "two_letter", !.prefixes = gen.prefixes \o SingleDigits]
    /\ GenUnchanged

\* lines 209-211: two_letter.append(c1 + c2)
GenTwoLetter ==
    /\ gen.phase = "two_letter"
    /\ gen' = [LoopNext(AllLetters, AllLetters, "extend") EXCEPT
                  !.two_letter = Append(gen.two_letter,
                                        <<AllLetters[gen.c1], AllLetters[gen.c2]>>)]
    /\ GenUnchanged

\* line 212: prefixes.extend(two_letter)
GenExtend ==
    /\ gen.phase = "extend"
    /\ gen' = [gen EXCEPT !.phase = "letter_digit",
                          !.prefixes = gen.prefixes \o gen.two_letter]
    /\ GenUnchanged

\* lines 216-218: prefixes.append(c1 + c2), letter then digit
GenLetterDigit ==
    /\ gen.phase = "letter_digit"
    /\ gen' = [LoopNext(AllLetters, AllDigits, "digit_letter") EXCEPT
                  !.prefixes = Append(gen.prefixes,
                                      <<AllLetters[gen.c1], AllDigits[gen.c2]>>)]
    /\ GenUnchanged

\* lines 221-223: prefixes.append(c1 + c2), digit then letter
GenDigitLetter ==
    /\ gen.phase = "digit_letter"
    /\ gen' = [LoopNext(AllDigits, AllLetters, "done") EXCEPT
                  !.prefixes = Append(gen.prefixes,
                                      <<AllDigits[gen.c1], AllLetters[gen.c2]>>)]
    /\ GenUnchanged

NextPrefixes ==
    \/ GenEmpty
    \/ GenLetters
    \/ GenDigits
    \/ GenTwoLetter
    \/ GenExtend
    \/ GenLetterDigit
    \/ GenDigitLetter

SpecPrefixes == Init /\ [][NextPrefixes]_vars

\* --------------------------------------- extract_slug_from_url on its own
\* URLs are drawn as scheme://host[/segment][rest][suffix].
UrlSchemes == {<<"h","t","t","p","s",":","/","/">>, <<"h","t","t","p",":","/","/">>}

\* the target host, two hosts that contain it as a substring, another host
UrlHosts ==
    {BASE_URL,
     <<"m", "y">> \o BASE_URL,
     BASE_URL \o <<".", "e", "v", ".", "i", "l">>,
     <<"e", "x", ".", "c", "o">>}

UrlSegments ==
    {<<>>, <<"a","c","m","e","-","c","o">>, <<"A","c","m","e">>, <<"a","0">>}

UrlRests == {<<>>, <<"/">>, <<"/","j","o","b","s">>}

UrlSuffixes ==
    {<<>>, <<"?","u","t","m","=","x","#","s","e","c","t","i","o","n">>,
     <<"#","s">>, <<"?","q">>}

\* the URL string of the parts drawn
UrlOf(u) ==
    u.scheme \o u.host
    \o (IF u.segment # <<>> THEN <<"/">> \o u.segment ELSE <<>>)
    \o u.rest \o u.suffix

InitExtract ==
    /\ csvFile = NoFile
    /\ zeroFile = NoFile
    /\ fewFile = NoFile
    /\ pc = "idle"
    /\ raised = "none"
    /\ FreshLocals
    /\ startFile = NoFile
    /\ clockBack = FALSE
    /\ runs = 0
    /\ probe = NoProbe
    /\ gen = GenStart
    /\ \E s \in UrlSchemes, h \in UrlHosts, seg \in UrlSegments, r \in UrlRests,
          x \in UrlSuffixes :
          /\ seg = <<>> => r \in {<<>>, <<"/">>}
          /\ urlProbe = [acted |-> FALSE, scheme |-> s, host |-> h, segment |-> seg,
                         rest |-> r, suffix |-> x, result |-> NoSlug]

\* extract_slug_from_url(url) on the URL drawn
CallExtractSlug ==
    /\ ~urlProbe.acted
    /\ urlProbe' = [urlProbe EXCEPT !.acted = TRUE,
                                    !.result = extract_slug_from_url(UrlOf(urlProbe))]
    /\ UNCHANGED <<files, pc, raised, locals, startFile, clockBack, runs, probe, gen>>

SpecExtract == InitExtract /\ [][CallExtractSlug]_vars

\* ------------------------------------------------------------------ claims
SlugsOf(rows) == {rows[k].slug : k \in DOMAIN rows}

RowsOf(rows, slug) == {k \in DOMAIN rows : rows[k].slug = slug}

InLoop(i) == pc = "google" /\ prefixIdx = i /\ start_index <= MaxStartIndex

\* C1: for every prefix, the per-query while loop of
\* discover_via_google_exhaustive is eventually left, whatever the search
\* client answers (an answer without items or without a cursor leaves it at
\* once, so the loop can only go on while every answer carries items and a
\* next-page cursor).
C1_PaginationTerminates ==
    \A i \in DOMAIN prefixes : InLoop(i) ~> ~InLoop(i)

\* C2: when a run completes, the slugs it enriched and inserted are exactly
\* the discovered slugs that were not loaded; every discovered slug has one
\* row, and the row of each new one carries today as first_seen_date and as
\* last_checked_date.
C2_NewVsExistingPartition ==
    pc = "done" =>
        /\ enriched = all_discovered \ SlugsOf(startFile.rows)
        /\ \A s \in all_discovered : Cardinality(RowsOf(csvFile.rows, s)) = 1
        /\ \A s \in all_discovered \ SlugsOf(startFile.rows) :
              \A k \in RowsOf(csvFile.rows, s) :
                  /\ csvFile.rows[k].first_seen_date = today
                  /\ csvFile.rows[k].last_checked_date = today

C2_Witness ==
    /\ pc = "done"
    /\ all_discovered \cap SlugsOf(startFile.rows) # {}
    /\ all_discovered \ SlugsOf(startFile.rows) # {}

\* C3: when a run completes, every entry that was in the registry file when
\* the run started is in the file with the same first_seen_date, company_name
\* and job_count.
C3_FrameOfPreExisting ==
    pc = "done" =>
        \A k \in DOMAIN startFile.rows :
            \E j \in DOMAIN csvFile.rows :
                /\ csvFile.rows[j].slug = startFile.rows[k].slug
                /\ csvFile.rows[j].first_seen_date = startFile.rows[k].first_seen_date
                /\ csvFile.rows[j].company_name = startFile.rows[k].company_name
                /\ csvFile.rows[j].job_count = startFile.rows[k].job_count

C3_Witness ==
    /\ pc = "done"
    /\ \E k \in DOMAIN startFile.rows :
          /\ startFile.rows[k].slug \in all_discovered
          /\ startFile.rows[k].last_checked_date # today
    /\ \E k \in DOMAIN startFile.rows : startFile.rows[k].slug \notin all_discovered

\* C4: a completed run whose discovery found no slug outside the registry
\* file enriched nothing and wrote the rows it found, in the same order, with
\* only last_checked_date changed; no slug has two rows.
C4_IdempotentMerge ==
    (pc = "done" /\ all_discovered \subseteq SlugsOf(startFile.rows)) =>
        /\ enriched = {}
        /\ csvFile.header
        /\ csvFile.rows =
              [k \in DOMAIN startFile.rows |->
                  [startFile.rows[k] EXCEPT !.last_checked_date = today]]
        /\ \A s \in SlugsOf(csvFile.rows) : Cardinality(RowsOf(csvFile.rows, s)) = 1

C4_Witness ==
    /\ pc = "done"
    /\ Len(startFile.rows) = 2
    /\ all_discovered # {}
    /\ all_discovered \subseteq SlugsOf(startFile.rows)
    /\ \E k \in DOMAIN startFile.rows : startFile.rows[k].last_checked_date # today

\* C5: when a run completes, every slug of the registry file as it was when
\* the run started is still in the file.
C5_RegistryOnlyGrows ==
    pc = "done" => SlugsOf(startFile.rows) \subseteq SlugsOf(csvFile.rows)

C5_Witness ==
    /\ pc = "done"
    /\ startFile.rows # <<>>
    /\ all_discovered = {}

DateOrdered(rows) ==
    \A k \in DOMAIN rows : rows[k].first_seen_date <= rows[k].last_checked_date

\* C6 as stated: every entry, in the file and in memory, has
\* first_seen_date <= last_checked_date.
C6_DateOrder_Original == DateOrdered(csvFile.rows) /\ DateOrdered(existing_slugs)

\* C6 as amended: every entry, in the file and in memory, has
\* first_seen_date <= last_checked_date as long as no run has read a date
\* earlier than the first_seen_date of an entry it loaded.
C6_DateOrder ==
    ~clockBack => (DateOrdered(csvFile.rows) /\ DateOrdered(existing_slugs))

C6_Witness ==
    /\ ~clockBack
    /\ pc = "done"
    /\ \E k \in DOMAIN csvFile.rows :
          csvFile.rows[k].first_seen_date < csvFile.rows[k].last_checked_date
    /\ \E k \in DOMAIN csvFile.rows :
          csvFile.rows[k].first_seen_date = today

\* C7: get_job_count returns the feed's count with "API Success" exactly
\* when the feed answered 200 (a count of 0 included); otherwise it returns
\* what page scraping gives.
C7_JobCountFallback ==
    probe.acted =>
        IF Answered(probe.feed) /\ probe.feed.status = 200
        THEN /\ probe.result.job_count = probe.feed.jobs
             /\ probe.result.status = "API Success"
        ELSE /\ probe.result = check_job_postings_via_page(probe.page)
             /\ probe.result.status # "API Success"

C7_Witness ==
    /\ probe.acted
    /\ Answered(probe.feed)
    /\ probe.feed.status = 200
    /\ probe.feed.jobs = 0
    /\ check_job_postings_via_page(probe.page).job_count > 0
    /\ probe.result.job_count = 0

\* C8: no answer of the search API ends the run: discovery never stops with
\* an uncaught exception.
C8_SearchNeverFatal == pc # "crashed" /\ raised = "none"

\* C9: at every step of a run, the registry file is either as it was when
\* the run started or the complete merged registry of the run.
C9_FileConsistent ==
    pc \in Running =>
        \/ csvFile = startFile
        \/ /\ pc \in {"save_rows", "save_zero", "save_few"}
           /\ csvFile = [header |-> TRUE, rows |-> sorted_slugs(existing_slugs)]

\* C10: when a run completes, the zero-jobs file holds exactly the registry
\* entries with job_count 0 and the few-jobs file exactly those with
\* job_count from 1 to FEW_JOBS_THRESHOLD - 1.
C10_FilteredViews ==
    pc = "done" =>
        /\ zeroFile.rows = FilteredFile(SelectSeq(csvFile.rows, IsZeroJobs)).rows
        /\ fewFile.rows = FilteredFile(SelectSeq(csvFile.rows, IsFewJobs)).rows

LetterSet == Range(AllLetters)

DigitSet == Range(AllDigits)

\* C11: the finished prefix list holds the empty prefix, every single
\* letter, every single digit and every two-character string of
\* letters x letters, letters x digits and digits x letters, nothing else,
\* each once: 1 + 26 + 10 + 26*26 + 26*10 + 10*26 = 1233 elements.
C11_PrefixCoverage ==
    gen.phase = "done" =>
        /\ Range(gen.prefixes) =
              {NoSlug}
              \cup {<<c>> : c \in LetterSet \cup DigitSet}
              \cup {<<a, b>> : a \in LetterSet, b \in LetterSet}
              \cup {<<a, b>> : a \in LetterSet, b \in DigitSet}
              \cup {<<a, b>> : a \in DigitSet, b \in LetterSet}
        /\ Len(gen.prefixes) = 1 + 26 + 10 + 26 * 26 + 26 * 10 + 10 * 26
        /\ Len(gen.prefixes) = 1233
        /\ Cardinality(Range(gen.prefixes)) = Len(gen.prefixes)

C11_Witness ==
    /\ gen.phase = "done"
    /\ gen.prefixes[1] = NoSlug
    /\ gen.prefixes[Len(gen.prefixes)] = <<"9", "z">>

\* C12: extract_slug_from_url returns none when the URL's host is not the
\* target domain (also when the host only contains it) and when the first
\* path segment is empty; on the target host it returns the first path
\* segment in lower case, without query string and fragment.
C12_SlugExtraction ==
    urlProbe.acted =>
        /\ urlProbe.host # BASE_URL => urlProbe.result = NoSlug
        /\ urlProbe.segment = <<>> => urlProbe.result = NoSlug
        /\ (urlProbe.host = BASE_URL /\ urlProbe.segment # <<>>)
              => urlProbe.result = Lower(urlProbe.segment)

\* C13: once MERGE has run, and in the file of a completed run, every entry
\* has last_checked_date equal to the run's today, whether it is new or was
\* loaded, found by this run's discovery or not.
C13_AllCheckedToday ==
    /\ pc \in {"save_open", "save_header", "save_rows", "save_zero", "save_few", "done"} =>
          \A k \in DOMAIN existing_slugs : existing_slugs[k].last_checked_date = today
    /\ pc = "done" =>
          /\ Len(csvFile.rows) = Len(existing_slugs)
          /\ \A k \in DOMAIN csvFile.rows : csvFile.rows[k].last_checked_date = today

C13_Witness ==
    /\ pc = "done"
    /\ enriched # {}
    /\ \E k \in DOMAIN startFile.rows :
          /\ startFile.rows[k].slug \notin all_discovered
          /\ startFile.rows[k].last_checked_date # today

====
